---- MODULE Spec2Model ----
(***************************************************************************)
(* Model of lavrocoder/project_updater: the self-update transaction of     *)
(* updater.py (ProjectUpdater.run and the methods it drives) over a small  *)
(* file system shared by the project root, .backup and .update.            *)
(*                                                                         *)
(* Strings are sequences of one-character strings, so that lstrip, split,  *)
(* int, str(Path) and the pathlib parse of a critical-file entry are       *)
(* computed, not assumed.  A path is a sequence of segments.               *)
(*                                                                         *)
(* Fault model: a file-system or network call either succeeds or raises    *)
(* and leaves its target as it was; a loop of copies may raise after any   *)
(* subset of its files has been copied (the iteration order of rglob is    *)
(* the directory order, which the code does not control).                  *)
(***************************************************************************)
EXTENDS Integers, Sequences, FiniteSets, TLC

\* Number of times run() is invoked by one process, one after the other.
MaxRuns == 2

Procs == {1, 2}

\* Longest version string compared, in dot-separated parts.
MaxParts == 3

----------------------------------------------------------------------------
(* Strings and versions                                                    *)

Digits == <<"0", "1", "2", "3", "4", "5", "6", "7", "8", "9">>

IsDigit(ch) == \E i \in 1..10 : Digits[i] = ch

DigitVal(ch) == (CHOOSE i \in 1..10 : Digits[i] = ch) - 1

\* A tag used as it comes, its leading 'v' kept.
lstrip_none(s, ch) == s

\* str.lstrip(ch): drop every leading occurrence of ch.
RECURSIVE lstrip(_, _)
lstrip(s, ch) ==
    IF s # <<>> /\ Head(s) = ch THEN lstrip(Tail(s), ch) ELSE s

\* str.split(sep): the pieces between the separators, empty pieces kept.
RECURSIVE split(_, _)
split(s, sep) ==
    IF s = <<>> THEN << <<>> >>
    ELSE LET r == split(Tail(s), sep)
         IN  IF Head(s) = sep
             THEN << <<>> >> \o r
             ELSE << <<Head(s)>> \o Head(r) >> \o Tail(r)

\* int(x) raises ValueError unless x is a non-empty run of digits (the
\* alphabet of the model has no sign, blank or underscore).
IntOk(x) == x # <<>> /\ \A i \in 1..Len(x) : IsDigit(x[i])

RECURSIVE IntAcc(_, _)
IntAcc(x, acc) ==
    IF x = <<>> THEN acc ELSE IntAcc(Tail(x), 10 * acc + DigitVal(Head(x)))

int(x) == IntAcc(x, 0)

\* A loop bound that looks at the first list only.
MaxFirst(a, b) == a

Max(a, b) == IF a >= b THEN a ELSE b

\* The loop of compare_versions over already parsed parts, from index i.
RECURSIVE CompareFrom(_, _, _)
CompareFrom(v1_parts, v2_parts, i) ==
    IF i > Max(Len(v1_parts), Len(v2_parts)) THEN 0
    ELSE LET v1 == IF i <= Len(v1_parts) THEN v1_parts[i] ELSE 0
             v2 == IF i <= Len(v2_parts) THEN v2_parts[i] ELSE 0
         IN  IF v1 > v2 THEN 1
             ELSE IF v1 < v2 THEN -1
             ELSE CompareFrom(v1_parts, v2_parts, i + 1)

\* compare_versions: [raised, value]; raised is the ValueError of int().
compare_versions(version1, version2) ==
    LET s1 == split(version1, ".")
        s2 == split(version2, ".")
    IN  IF \E i \in 1..Len(s1) : ~IntOk(s1[i]) THEN [raised |-> TRUE, value |-> 0]
        ELSE IF \E i \in 1..Len(s2) : ~IntOk(s2[i]) THEN [raised |-> TRUE, value |-> 0]
        ELSE [raised |-> FALSE,
              value  |-> CompareFrom([i \in 1..Len(s1) |-> int(s1[i])],
                                     [i \in 1..Len(s2) |-> int(s2[i])], 1)]

\* Version strings made of dot-separated non-negative integers, of n parts
\* and of at most n parts.
Parts == { <<"0">>, <<"1">>, <<"1", "0">> }

RECURSIVE VersionsOfLen(_)
VersionsOfLen(n) ==
    IF n <= 1 THEN Parts
    ELSE {x \o <<".">> \o v : x \in Parts, v \in VersionsOfLen(n - 1)}

VersionsUpTo(n) == UNION {VersionsOfLen(k) : k \in 1..n}

\* check_updates_on_startup of main.py: whether the notice is printed.  Any
\* error of the request or of the parsing is swallowed by the bare except;
\* otherwise the tag without its leading 'v' is compared with the current
\* version as a string.
check_updates_on_startup(current, net) ==
    IF net.kind # "ok" THEN FALSE
    ELSE LET latest == lstrip(net.tag, "v")
         IN  latest # current

----------------------------------------------------------------------------
(* Paths and the three directory trees                                     *)

\* Project-relative paths of the model: an application file, a
\* configuration file and a file inside a hidden directory.
pA == << <<"a">> >>
pC == << <<"c">> >>
pH == << <<".", "g">>, <<"a">> >>

Paths == {pA, pC, pH}

\* File contents: 0 is "no such file"; 1 is what the installed application
\* holds; 2 and 3 are the contents shipped by two releases.
Absent == 0
Contents == 0..3

EmptyTree == [q \in Paths |-> Absent]

\* str(relative_path) on POSIX: the segments joined by "/".
RECURSIVE Str(_)
Str(path) ==
    IF Len(path) = 0 THEN <<>>
    ELSE IF Len(path) = 1 THEN path[1]
    ELSE path[1] \o <<"/">> \o Str(Tail(path))

\* project_root / file_path: pathlib drops empty and "." segments.
ParsePath(s) == SelectSeq(split(s, "/"), LAMBDA seg : seg # <<>> /\ seg # <<".">>)

\* any(part.startswith('.') for part in relative_path.parts)
IsHidden(path) == \E i \in 1..Len(path) : path[i] # <<>> /\ path[i][1] = "."

----------------------------------------------------------------------------
(* Inputs: version.json, the release endpoint, the archives                *)

\* version.json of the installed application.  The archives of the model
\* carry no version.json, so the descriptor is the same in every run.
CurrentVersion == <<"1", ".", "0", ".", "0">>

\* critical_files lists: none, the configuration file, and the same file
\* written "./c", which pathlib resolves to the same file.
CriticalLists == { {}, { <<"c">> }, { <<".", "/", "c">> } }

\* What requests.get(update_url) and the parsing of its body can give.
Tags == { <<"v", "1", ".", "2", ".", "0">>,      \* newer
          <<"v", "1", ".", "0", ".", "0">>,      \* equal
          <<"1", ".", "0">>,                     \* equal, one part fewer
          <<"v", "0", ".", "9">>,                \* older
          <<"v", "1", ".", "x">> }               \* not numeric

NetOutcomes ==
    [kind : {"conn_error", "http_error", "not_json", "no_tag"}, tag : {<<>>}]
    \cup [kind : {"ok"}, tag : Tags]

\* What the user types at the prompt.
Answers == { <<"y">>, <<"Y">>, <<"n">>, <<>> }

\* str.lower() on the alphabet of the answers.
lower(s) == [i \in 1..Len(s) |-> IF s[i] = "Y" THEN "y" ELSE IF s[i] = "N" THEN "n" ELSE s[i]]

\* Top-level directory names an archive can hold (the hosting service names
\* the directory after the commit, so two releases differ in it).
Tops == {"r1", "r2"}

NoDir == [dir |-> FALSE, files |-> EmptyTree]
NoTops == [t \in Tops |-> NoDir]

Dir(files) == [dir |-> TRUE, files |-> files]

\* One release: a single top-level directory with all three paths.
Arc1 == [NoTops EXCEPT !["r1"] = Dir([EmptyTree EXCEPT ![pA] = 2, ![pC] = 2, ![pH] = 2])]
\* A later release under another directory name.
Arc2 == [NoTops EXCEPT !["r2"] = Dir([EmptyTree EXCEPT ![pA] = 3, ![pC] = 3])]
\* Two top-level directories.
ArcTwo == [NoTops EXCEPT !["r1"] = Dir([EmptyTree EXCEPT ![pA] = 2]),
                         !["r2"] = Dir([EmptyTree EXCEPT ![pA] = 3])]
\* No top-level directory (files only, or empty).
ArcZero == NoTops

Archives == {Arc1, Arc2, ArcTwo, ArcZero}

NoZip == [kind |-> "none", tops |-> NoTops]
BadZip == [kind |-> "corrupt", tops |-> NoTops]
ZipOf(arc) == [kind |-> "ok", tops |-> arc]

\* Outcomes of the download: requests.get raises, the stream breaks while
\* update.zip is being written, or a body arrives (an archive, or an error
\* page: the status of this response is not checked).
DownloadResponses ==
    [kind : {"connect_error", "stream_error"}, zip : {NoZip}]
    \cup [kind : {"body"}, zip : {ZipOf(a) : a \in Archives} \cup {BadZip}]

NoBackup == [exists |-> FALSE, files |-> EmptyTree]
NoUpdate == [exists |-> FALSE, zip |-> NoZip, extracted |-> NoTops]

NoRelease == [tag |-> <<>>]

----------------------------------------------------------------------------
(* The methods of ProjectUpdater as operators                              *)

\* check_for_updates without its try/except: an error of the request or of
\* the parsing reaches the caller.
check_for_updates_unguarded(current_version, net) ==
    LET latest_version == lstrip(net.tag, "v")
        cmp == compare_versions(latest_version, current_version)
    IN  IF net.kind # "ok" \/ cmp.raised
        THEN [raised |-> TRUE, has_update |-> FALSE, release |-> NoRelease]
        ELSE IF cmp.value > 0
        THEN [raised |-> FALSE, has_update |-> TRUE, release |-> [tag |-> net.tag]]
        ELSE [raised |-> FALSE, has_update |-> FALSE, release |-> NoRelease]

\* check_for_updates taking "not older" for "newer".
check_for_updates_ge(current_version, net) ==
    LET latest_version == lstrip(net.tag, "v")
        cmp == compare_versions(latest_version, current_version)
    IN  IF net.kind # "ok" \/ cmp.raised
        THEN [raised |-> FALSE, has_update |-> FALSE, release |-> NoRelease]
        ELSE IF cmp.value >= 0
        THEN [raised |-> FALSE, has_update |-> TRUE, release |-> [tag |-> net.tag]]
        ELSE [raised |-> FALSE, has_update |-> FALSE, release |-> NoRelease]

\* check_for_updates: requests.get, raise_for_status, response.json(),
\* ['tag_name'] and compare_versions all run inside the try; the except
\* returns (False, {}).
check_for_updates(current_version, net) ==
    LET latest_version == lstrip(net.tag, "v")
        cmp == compare_versions(latest_version, current_version)
    IN  IF net.kind # "ok" \/ cmp.raised
        THEN [raised |-> FALSE, has_update |-> FALSE, release |-> NoRelease]
        ELSE IF cmp.value > 0
        THEN [raised |-> FALSE, has_update |-> TRUE, release |-> [tag |-> net.tag]]
        ELSE [raised |-> FALSE, has_update |-> FALSE, release |-> NoRelease]

\* The critical files that exist: source = project_root / file_path,
\* source.exists().
BackupSources(lv, critical_files) ==
    {q \in Paths : lv[q] # Absent /\ \E e \in critical_files : ParsePath(e) = q}

\* A fresh .backup holding copies of the files S of the tree lv.
Snapshot(lv, S) ==
    [exists |-> TRUE, files |-> [q \in Paths |-> IF q \in S THEN lv[q] ELSE Absent]]

\* A removal of .backup that removes nothing.
rmtree_backup_skip(bk) == bk

\* shutil.rmtree(self.backup_dir)
rmtree_backup(bk) == NoBackup

\* The copies of the backup loop, laid over the directory bk.
CopyIntoBackup(bk, lv, S) ==
    [exists |-> TRUE,
     files  |-> [q \in Paths |-> IF q \in S THEN lv[q] ELSE bk.files[q]]]

\* A backup that does not remove an earlier .backup first.
backup_critical_files_keep(bk, lv, S) == CopyIntoBackup(bk, lv, S)

\* backup_critical_files on a .backup directory bk, having copied the files
\* S: rmtree of an existing .backup, mkdir, then the copies.
backup_critical_files(bk, lv, S) == CopyIntoBackup(rmtree_backup(bk), lv, S)

\* download_update: mkdir(exist_ok), requests.get, then the write loop.
download_update(up, resp) ==
    IF resp.kind = "connect_error"
    THEN [raised |-> TRUE, update_dir |-> [up EXCEPT !.exists = TRUE]]
    ELSE IF resp.kind = "stream_error"
    THEN [raised |-> TRUE, update_dir |-> [up EXCEPT !.exists = TRUE, !.zip = BadZip]]
    ELSE [raised |-> FALSE, update_dir |-> [up EXCEPT !.exists = TRUE, !.zip = resp.zip]]

\* zip_ref.extractall(extract_dir): the archive is laid over whatever
\* .update/extracted already holds.
extractall(extracted, tops) ==
    [t \in Tops |->
        [dir   |-> extracted[t].dir \/ tops[t].dir,
         files |-> [q \in Paths |-> IF tops[t].files[q] # Absent
                                    THEN tops[t].files[q]
                                    ELSE extracted[t].files[q]]]]

\* subdirs = [d for d in extract_dir.iterdir() if d.is_dir()]
subdirs(extracted) == {t \in Tops : extracted[t].dir}

\* The merge loop copying every file of the archive.
ShouldCopyAll(path, critical_files) == TRUE

\* The two "continue" tests of the merge loop.
ShouldCopy(path, critical_files) ==
    /\ Str(path) \notin critical_files
    /\ ~IsHidden(path)

MergeCandidates(files, critical_files) ==
    {q \in Paths : files[q] # Absent /\ ShouldCopy(q, critical_files)}

\* A merge that mirrors the source directory: what the archive lacks is
\* removed from the project root.
copy_files_mirror(lv, files, S) ==
    [q \in Paths |-> IF q \in S THEN files[q]
                     ELSE IF files[q] = Absent THEN Absent ELSE lv[q]]

\* shutil.copy2(item, dest) for the files S of the source directory.
copy_files(lv, files, S) ==
    [q \in Paths |-> IF q \in S THEN files[q] ELSE lv[q]]

BackupFiles(bk) == IF bk.exists THEN {q \in Paths : bk.files[q] # Absent} ELSE {}

\* restore_critical_files, having copied the files R of .backup.
restore_critical_files(lv, bk, R) ==
    IF ~bk.exists THEN lv
    ELSE [q \in Paths |-> IF q \in R /\ bk.files[q] # Absent THEN bk.files[q] ELSE lv[q]]

\* A rollback that restores nothing.
restore_from_backup_skip(lv, bk, R) == lv

\* restore_from_backup
restore_from_backup(lv, bk, R) ==
    IF bk.exists THEN restore_critical_files(lv, bk, R) ELSE lv

\* An apply_update that leaves the staging directory behind.
rmtree_update_skip(up) == up

\* shutil.rmtree(self.update_dir)
rmtree_update(up) == NoUpdate

----------------------------------------------------------------------------
(* State                                                                   *)

VARIABLES
    version_info,   \* version.json: [version, critical_files]
    live,           \* the live application tree: Paths -> Contents
    backup_dir,     \* .backup: [exists, files]
    update_dir,     \* .update: [exists, zip, extracted]
    active,         \* the processes that invoke run()
    pc,             \* where each invocation of run() stands
    ret,            \* the value run() returned (-1: none)
    runs,           \* how many more times each process will invoke run()
    release_info,   \* the release check_for_updates handed to run()
    pre,            \* the three trees when the current run() began
    hist,           \* what the current run() has done so far
    probe           \* inputs and results of the version functions applied alone

vars == <<version_info, live, backup_dir, update_dir, active, pc, ret, runs,
          release_info, pre, hist, probe>>

fs == <<live, backup_dir, update_dir>>

NoHist ==
    [net     |-> [kind |-> "none", tag |-> <<>>],  \* outcome of the release check
     answer  |-> <<"-">>,                          \* response: the answer, lowered
     invoked |-> {},                               \* phases entered
     failed  |-> "none",                           \* phase in which an error arose
     applied |-> "none",                           \* how apply_update ended
     nsub    |-> -1,                               \* len(subdirs) seen by apply_update
     source  |-> "none",                           \* subdirs[0]
     copied  |-> {},                               \* paths written by the merge loop
     served  |-> NoZip]                            \* what download_update wrote

TypeOK ==
    /\ version_info \in [version : {CurrentVersion}, critical_files : CriticalLists]
    /\ live \in [Paths -> Contents]
    /\ backup_dir \in [exists : BOOLEAN, files : [Paths -> Contents]]
    /\ update_dir.exists \in BOOLEAN
    /\ update_dir.zip.kind \in {"none", "corrupt", "ok"}
    /\ active \subseteq Procs
    /\ pc \in [Procs -> {"idle", "confirm", "backup", "download", "apply",
                         "commit", "done", "raised"}]
    /\ ret \in [Procs -> {-1, 0, 1}]
    /\ runs \in [Procs -> 0..MaxRuns]

\* A .backup left behind by an interrupted earlier run, holding the
\* configuration file as it then was.
StaleBackup == [exists |-> TRUE, files |-> [EmptyTree EXCEPT ![pC] = 1]]

\* The state after construction: an installed application (its program file
\* and its hidden directory are there, the configuration file may not be), no
\* staging directory, perhaps a .backup left by an interrupted run, nobody
\* running; each of procs will invoke run() n times.
InitWith(procs, n) ==
    /\ version_info \in [version : {CurrentVersion}, critical_files : CriticalLists]
    /\ live \in {t \in [Paths -> {Absent, 1}] : t[pA] = 1 /\ t[pH] = 1}
    /\ backup_dir \in {NoBackup, StaleBackup}
    /\ update_dir = NoUpdate
    /\ active = procs
    /\ pc = [p \in Procs |-> "idle"]
    /\ ret = [p \in Procs |-> -1]
    /\ runs = [p \in Procs |-> IF p \in procs THEN n ELSE 0]
    /\ release_info = [p \in Procs |-> NoRelease]
    /\ pre = [p \in Procs |-> [live |-> live, backup_dir |-> backup_dir,
                                update_dir |-> NoUpdate]]
    /\ hist = [p \in Procs |-> NoHist]

NoCompare == [raised |-> FALSE, value |-> 0]

NoProbe ==
    [step |-> "none", prefix |-> <<>>, a |-> <<>>, b |-> <<>>,
     ab |-> NoCompare, ba |-> NoCompare, has_update |-> FALSE, announced |-> FALSE]

Init == InitWith({1}, MaxRuns) /\ probe = NoProbe

\* Two processes, one invocation each, on an installation whose configuration
\* file exists and is listed as critical.
InitTwo ==
    /\ probe = NoProbe
    /\ InitWith({1, 2}, 1)
    /\ version_info.critical_files = { <<"c">> }
    /\ live[pC] = 1
    /\ backup_dir = NoBackup

----------------------------------------------------------------------------
(* run(), one action per phase                                             *)

\* run lines 202-203 with the result of the backup ignored.
AfterBackupIgnored(ok) == "download"

\* run lines 202-203: "if not self.backup_critical_files(): return 1".
AfterBackup(ok) == IF ok THEN "download" ELSE "done"

\* run() is invoked: check_for_updates, then "if not has_update: return 0".
\* version.json is present and well formed, so load_version_info (lines
\* 24-25, outside the try) does not raise.
Check(p) ==
    /\ pc[p] \in {"idle", "done", "raised"}
    /\ runs[p] > 0
    /\ \E net \in NetOutcomes :
         LET r == check_for_updates(version_info.version, net)
         IN  /\ pc' = [pc EXCEPT ![p] = IF r.raised THEN "raised"
                                        ELSE IF r.has_update THEN "confirm"
                                        ELSE "done"]
             /\ ret' = [ret EXCEPT ![p] = IF ~r.raised /\ ~r.has_update THEN 0 ELSE -1]
             /\ release_info' = [release_info EXCEPT ![p] = r.release]
             /\ hist' = [hist EXCEPT ![p] = [NoHist EXCEPT !.net = net,
                                               !.failed = IF r.raised THEN "check" ELSE "none"]]
    /\ runs' = [runs EXCEPT ![p] = @ - 1]
    /\ pre' = [pre EXCEPT ![p] = [live |-> live, backup_dir |-> backup_dir,
                                  update_dir |-> update_dir]]
    /\ UNCHANGED <<probe, version_info, live, backup_dir, update_dir, active>>

\* The prompt: anything but 'y' (after lower()) cancels with status 0.
Confirm(p) ==
    /\ pc[p] = "confirm"
    /\ \E answer \in Answers :
         /\ pc' = [pc EXCEPT ![p] = IF lower(answer) = <<"y">> THEN "backup" ELSE "done"]
         /\ ret' = [ret EXCEPT ![p] = IF lower(answer) = <<"y">> THEN -1 ELSE 0]
         /\ hist' = [hist EXCEPT ![p].answer = lower(answer)]
    /\ UNCHANGED <<probe, version_info, live, backup_dir, update_dir, active, runs,
                   release_info, pre>>

\* backup_critical_files and the test of its result in run.  The rmtree and
\* mkdir of lines 69-71 stand outside the try: their error leaves run() as
\* an exception.  An error of a copy is caught and gives False.
Backup(p) ==
    /\ pc[p] = "backup"
    /\ LET sources == BackupSources(live, version_info.critical_files)
       IN  \/ \* rmtree of an earlier .backup, or mkdir, raises
              /\ pc' = [pc EXCEPT ![p] = "raised"]
              /\ hist' = [hist EXCEPT ![p].invoked = @ \cup {"backup"},
                                      ![p].failed = "backup"]
              /\ UNCHANGED <<backup_dir, ret>>
           \/ \* a copy raises after the files S were copied
              \E S \in SUBSET sources :
                /\ S # sources
                /\ backup_dir' = backup_critical_files(backup_dir, live, S)
                /\ pc' = [pc EXCEPT ![p] = AfterBackup(FALSE)]
                /\ ret' = [ret EXCEPT ![p] = IF AfterBackup(FALSE) = "done" THEN 1 ELSE -1]
                /\ hist' = [hist EXCEPT ![p].invoked = @ \cup {"backup"},
                                        ![p].failed = "backup"]
           \/ \* every existing critical file is copied
              /\ backup_dir' = backup_critical_files(backup_dir, live, sources)
              /\ pc' = [pc EXCEPT ![p] = AfterBackup(TRUE)]
              /\ hist' = [hist EXCEPT ![p].invoked = @ \cup {"backup"}]
              /\ UNCHANGED ret
    /\ UNCHANGED <<probe, version_info, live, update_dir, active, runs, release_info, pre>>

\* download_update inside the try of run lines 206-210.
Download(p) ==
    /\ pc[p] = "download"
    /\ \E resp \in DownloadResponses :
         LET r == download_update(update_dir, resp)
         IN  /\ update_dir' = r.update_dir
             /\ pc' = [pc EXCEPT ![p] = IF r.raised THEN "done" ELSE "apply"]
             /\ ret' = [ret EXCEPT ![p] = IF r.raised THEN 1 ELSE -1]
             /\ hist' = [hist EXCEPT ![p].invoked = @ \cup {"download"},
                                     ![p].failed = IF r.raised THEN "download" ELSE @,
                                     ![p].served = r.update_dir.zip]
    /\ UNCHANGED <<probe, version_info, live, backup_dir, active, runs, release_info, pre>>

\* apply_update up to the end of the merge loop, for the choices the
\* environment makes: does the extraction succeed (extract_ok), which
\* directory is subdirs[0] (src), which files were copied when the loop ended
\* (S; all candidates unless a copy raised).
\*   lines 118-120  extraction; a missing or corrupt update.zip raises
\*   lines 124-128  subdirs, "if not subdirs: raise", source_dir = subdirs[0]
\*   lines 131-149  critical_files, the merge loop
ApplyExtracted(up, extract_ok) ==
    IF up.exists /\ up.zip.kind = "ok" /\ extract_ok
    THEN extractall(up.extracted, up.zip.tops)
    ELSE up.extracted

ApplyExtractOk(up, extract_ok) == up.exists /\ up.zip.kind = "ok" /\ extract_ok

\* The rest of apply_update and the tail of run, on the shared trees.
\*   R   the files restore_critical_files copied (all unless a copy raised)
\*   rm_ok  whether shutil.rmtree(self.update_dir) succeeded
\*   R2  the files restore_from_backup copied in the except clause
\* result: "true" / "false" as returned, "raised" when the restore of the
\* except clause raises itself, which nothing catches.
apply_update(lv, bk, up, critical_files, extract_ok, src, S, R, rm_ok, R2) ==
    LET extracted == ApplyExtracted(up, extract_ok)
        subs == subdirs(extracted)
        found == ApplyExtractOk(up, extract_ok) /\ subs # {}
        cand == IF found THEN MergeCandidates(extracted[src].files, critical_files) ELSE {}
        lv1 == IF found THEN copy_files(lv, extracted[src].files, S) ELSE lv
        merged == found /\ S = cand
        lv2 == IF merged THEN restore_critical_files(lv1, bk, R) ELSE lv1
        restored == merged /\ R = BackupFiles(bk)
        cleaned == restored /\ rm_ok
        up1 == IF up.exists THEN [up EXCEPT !.extracted = extracted] ELSE up
        info == [nsub   |-> IF ApplyExtractOk(up, extract_ok) THEN Cardinality(subs) ELSE -1,
                 source |-> IF found THEN src ELSE "none",
                 copied |-> IF found THEN S ELSE {}]
    IN  IF cleaned
        THEN [result |-> "true", live |-> lv2, update_dir |-> rmtree_update(up1)] @@ info
        ELSE [result |-> IF R2 = BackupFiles(bk) THEN "false" ELSE "raised",
              live |-> restore_from_backup(lv2, bk, R2),
              update_dir |-> up1] @@ info

\* apply_update and the test of its result in run line 213.
Apply(p) ==
    /\ pc[p] = "apply"
    /\ \E extract_ok \in BOOLEAN :
         LET extracted == ApplyExtracted(update_dir, extract_ok)
             subs == subdirs(extracted)
             found == ApplyExtractOk(update_dir, extract_ok) /\ subs # {}
         IN  \E src \in (IF found THEN subs ELSE {"none"}) :
             \E S \in (IF found
                       THEN SUBSET MergeCandidates(extracted[src].files,
                                                   version_info.critical_files)
                       ELSE {{}}) :
             \E R \in SUBSET BackupFiles(backup_dir) :
             \E rm_ok \in BOOLEAN :
             \E R2 \in SUBSET BackupFiles(backup_dir) :
               LET r == apply_update(live, backup_dir, update_dir,
                                     version_info.critical_files,
                                     extract_ok, src, S, R, rm_ok, R2)
               IN  /\ live' = r.live
                   /\ update_dir' = r.update_dir
                   /\ pc' = [pc EXCEPT ![p] = IF r.result = "true" THEN "commit"
                                              ELSE IF r.result = "false" THEN "done"
                                              ELSE "raised"]
                   /\ ret' = [ret EXCEPT ![p] = IF r.result = "false" THEN 1 ELSE -1]
                   /\ hist' = [hist EXCEPT ![p].invoked = @ \cup {"apply"},
                                           ![p].failed = IF r.result = "true" THEN @ ELSE "apply",
                                           ![p].applied = r.result,
                                           ![p].nsub = r.nsub,
                                           ![p].source = r.source,
                                           ![p].copied = r.copied]
    /\ UNCHANGED <<probe, version_info, backup_dir, active, runs, release_info, pre>>

\* run lines 214-220 after apply_update returned True: the backup is removed
\* and 0 returned; an error of this rmtree leaves run() as an exception.
Commit(p) ==
    /\ pc[p] = "commit"
    /\ \/ /\ backup_dir' = rmtree_backup(backup_dir)
          /\ pc' = [pc EXCEPT ![p] = "done"]
          /\ ret' = [ret EXCEPT ![p] = 0]
          /\ UNCHANGED hist
       \/ /\ backup_dir.exists
          /\ pc' = [pc EXCEPT ![p] = "raised"]
          /\ hist' = [hist EXCEPT ![p].failed = "commit"]
          /\ UNCHANGED <<backup_dir, ret>>
    /\ UNCHANGED <<probe, version_info, live, update_dir, active, runs, release_info, pre>>

Next ==
    \E p \in active :
        \/ Check(p)
        \/ Confirm(p)
        \/ Backup(p)
        \/ Download(p)
        \/ Apply(p)
        \/ Commit(p)

\* One process invoking run() up to MaxRuns times.
Spec == Init /\ [][Next]_vars

\* Two processes invoking run() once each on the same project root.
SpecTwo == InitTwo /\ [][Next]_vars

----------------------------------------------------------------------------
(* The version functions applied alone                                     *)

\* A remote tag (prefix \o a) and a current version b, nothing computed yet.
InitVersions ==
    /\ InitWith({}, 0)
    /\ version_info.critical_files = {}
    /\ live[pC] = 1
    /\ backup_dir = NoBackup
    /\ probe \in [step : {"input"}, prefix : {<<>>, <<"v">>},
                  a : VersionsUpTo(MaxParts), b : VersionsUpTo(MaxParts - 1),
                  ab : {NoCompare}, ba : {NoCompare},
                  has_update : {FALSE}, announced : {FALSE}]

ProbeNet == [kind |-> "ok", tag |-> probe.prefix \o probe.a]

\* compare_versions(a, b) and compare_versions(b, a)
ProbeCompare ==
    /\ probe.step = "input"
    /\ probe' = [probe EXCEPT !.step = "compared",
                              !.ab = compare_versions(probe.a, probe.b),
                              !.ba = compare_versions(probe.b, probe.a)]
    /\ UNCHANGED <<version_info, live, backup_dir, update_dir, active, pc, ret,
                   runs, release_info, pre, hist>>

\* check_for_updates with current version b and the release tagged prefix \o a
ProbeCheck ==
    /\ probe.step = "compared"
    /\ probe' = [probe EXCEPT !.step = "checked",
                              !.has_update = check_for_updates(probe.b, ProbeNet).has_update]
    /\ UNCHANGED <<version_info, live, backup_dir, update_dir, active, pc, ret,
                   runs, release_info, pre, hist>>

\* check_updates_on_startup on the same descriptor and release
ProbeNotify ==
    /\ probe.step = "checked"
    /\ probe' = [probe EXCEPT !.step = "notified",
                              !.announced = check_updates_on_startup(probe.b, ProbeNet)]
    /\ UNCHANGED <<version_info, live, backup_dir, update_dir, active, pc, ret,
                   runs, release_info, pre, hist>>

NextVersions == ProbeCompare \/ ProbeCheck \/ ProbeNotify

SpecVersions == InitVersions /\ [][NextVersions]_vars

----------------------------------------------------------------------------
(* Backup followed at once by restore                                      *)

\* Any content of the project tree, any critical_files list, with or without
\* a .backup left by an earlier run; run() stands before its backup.
InitRoundTrip ==
    /\ version_info \in [version : {CurrentVersion}, critical_files : CriticalLists]
    /\ live \in [Paths -> {Absent, 1, 2}]
    /\ backup_dir \in {NoBackup, StaleBackup}
    /\ update_dir = NoUpdate
    /\ active = {1}
    /\ pc = [p \in Procs |-> IF p = 1 THEN "backup" ELSE "idle"]
    /\ ret = [p \in Procs |-> -1]
    /\ runs = [p \in Procs |-> 0]
    /\ release_info = [p \in Procs |-> NoRelease]
    /\ pre = [p \in Procs |-> [live |-> live, backup_dir |-> backup_dir,
                                update_dir |-> NoUpdate]]
    /\ hist = [p \in Procs |-> NoHist]
    /\ probe = NoProbe

\* restore_critical_files right after a backup that returned True.
RoundTripRestore(p) ==
    /\ pc[p] = "download"
    /\ live' = restore_critical_files(live, backup_dir, BackupFiles(backup_dir))
    /\ pc' = [pc EXCEPT ![p] = "done"]
    /\ UNCHANGED <<probe, version_info, backup_dir, update_dir, active, ret, runs,
                   release_info, pre, hist>>

NextRoundTrip == \E p \in active : Backup(p) \/ RoundTripRestore(p)

SpecRoundTrip == InitRoundTrip /\ [][NextRoundTrip]_vars

----------------------------------------------------------------------------
(* Properties                                                              *)

\* The paths a critical_files entry names, as pathlib resolves them.
CriticalPaths == {q \in Paths : \E e \in version_info.critical_files : ParsePath(e) = q}

\* The release check ended in one of the failures of the request or of the
\* parsing: no connection, HTTP error, body not JSON, no tag_name, or a tag
\* with a part that is not a number.
CheckFailed(net) ==
    \/ net.kind \in {"conn_error", "http_error", "not_json", "no_tag"}
    \/ /\ net.kind = "ok"
       /\ LET parts == split(lstrip(net.tag, "v"), ".")
          IN  \E i \in 1..Len(parts) : ~IntOk(parts[i])

\* The remote tag is numeric and not strictly newer than the current version.
NotNewer(net) ==
    /\ net.kind = "ok"
    /\ ~CheckFailed(net)
    /\ compare_versions(lstrip(net.tag, "v"), version_info.version).value <= 0

C2_RollbackGuarantee ==
    \A p \in active :
        (pc[p] = "done" /\ hist[p].applied = "false") =>
            \A q \in CriticalPaths :
                pre[p].live[q] # Absent => live[q] = pre[p].live[q]

\* The merge loop had overwritten the critical file (listed as "./c", which
\* the membership test misses) when a later copy raised, and run returned 1.
C2_Witness ==
    \E p \in active :
        /\ pc[p] = "done"
        /\ hist[p].applied = "false"
        /\ pC \in hist[p].copied
        /\ pC \in CriticalPaths
        /\ pre[p].live[pC] = 1

\* C3  Structural rejection: when the extracted tree has zero, or two or
\* more, top-level directories, apply_update does not succeed and the
\* project tree is as it was before the transaction.
C3_StructuralRejection ==
    \A p \in active :
        (hist[p].nsub = 0 \/ hist[p].nsub >= 2) =>
            /\ hist[p].applied # "true"
            /\ live = pre[p].live

\* C4  Staging cleanup: when a run that reached the download step has
\* returned, .update no longer exists.
C4_StagingCleanup ==
    \A p \in active :
        (pc[p] = "done" /\ "download" \in hist[p].invoked) => ~update_dir.exists

\* C5  Commit cleanup: when run has returned 0 after applying an update,
\* neither .backup nor .update exists.
C5_CommitCleanup ==
    \A p \in active :
        (pc[p] = "done" /\ ret[p] = 0 /\ hist[p].applied = "true") =>
            /\ ~backup_dir.exists
            /\ ~update_dir.exists

\* run returned 0 after an update that had a critical file to back up.
C5_Witness ==
    \E p \in active :
        /\ pc[p] = "done"
        /\ ret[p] = 0
        /\ hist[p].applied = "true"
        /\ pA \in hist[p].copied
        /\ pre[p].live[pC] = 1
        /\ pC \in CriticalPaths

\* C6  Exit status: run returns 0 exactly when nothing failed (update
\* applied, none available, or declined), and every failure of the backup,
\* download or apply phase ends in run returning a non-zero status: none
\* leaves run as an exception.
C6_ExitStatus ==
    \A p \in active :
        /\ pc[p] = "done" => (ret[p] = 0 <=> hist[p].failed = "none")
        /\ hist[p].failed \in {"backup", "download", "apply"} =>
               (pc[p] = "done" /\ ret[p] # 0)

\* C7  Failure before apply: when the backup failed or the download raised
\* and run has returned, the live tree is as it was before the transaction
\* and apply_update was never invoked.
C7_FailureBeforeApply ==
    \A p \in active :
        (pc[p] = "done" /\ hist[p].failed \in {"backup", "download"}) =>
            /\ live = pre[p].live
            /\ "apply" \notin hist[p].invoked

\* A copy of the backup raised and run returned 1.
C7_Witness ==
    \E p \in active :
        /\ pc[p] = "done"
        /\ ret[p] = 1
        /\ hist[p].failed = "backup"
        /\ backup_dir.exists

\* C8  No-update path: when the remote tag is not strictly newer, or the
\* check failed, or the user answered anything but 'y', run has returned 0,
\* no phase was entered and the three trees are as they were.
C8_NoUpdatePath ==
    \A p \in active :
        (\/ NotNewer(hist[p].net)
         \/ CheckFailed(hist[p].net)
         \/ (hist[p].answer # <<"-">> /\ hist[p].answer # <<"y">>)) =>
            /\ pc[p] = "done"
            /\ ret[p] = 0
            /\ hist[p].invoked = {}
            /\ live = pre[p].live
            /\ backup_dir = pre[p].backup_dir
            /\ update_dir = pre[p].update_dir

\* The remote tag equals the current version, in a run that found the
\* directories of an earlier failed run.
C8_Witness ==
    \E p \in active :
        /\ hist[p].net = [kind |-> "ok", tag |-> <<"v", "1", ".", "0", ".", "0">>]
        /\ pc[p] = "done"
        /\ update_dir.exists
        /\ backup_dir.exists

\* C9  Soft-failing check: after any failure of the request or of the
\* parsing, check_for_updates has returned (False, {}) and nothing was
\* raised to run, which returns 0.
C9_SoftFailingCheck ==
    \A p \in active :
        CheckFailed(hist[p].net) =>
            /\ pc[p] = "done"
            /\ hist[p].failed = "none"
            /\ release_info[p] = NoRelease
            /\ ret[p] = 0

\* The release carried a tag that is not numeric.
C9_Witness ==
    \E p \in active :
        /\ hist[p].net = [kind |-> "ok", tag |-> <<"v", "1", ".", "x">>]
        /\ pc[p] = "done"

\* A run is in flight from the start of its backup to its return.
InFlight(p) == pc[p] \in {"backup", "download", "apply", "commit"}

\* C10  Mutual exclusion: two invocations of run on the same project root
\* are never in flight together.
C10_MutualExclusion ==
    \A p, q \in active : (p # q /\ InFlight(p)) => ~InFlight(q)

\* C11  No stale-backup leakage: from the end of a successful backup on, the
\* .backup a run consults holds exactly the files that same run snapshotted,
\* whatever an earlier run left there; and once apply_update has run, no file
\* that was absent before the run and was not merged from the archive has
\* appeared in the live tree.
C11_NoStaleBackup ==
    \A p \in active :
        /\ (pc[p] \in {"download", "apply", "commit"} \/ hist[p].applied \in {"false", "raised"}) =>
               backup_dir = Snapshot(pre[p].live,
                                     BackupSources(pre[p].live, version_info.critical_files))
        /\ hist[p].applied # "none" =>
               \A q \in Paths :
                   (pre[p].live[q] = Absent /\ q \notin hist[p].copied) => live[q] = Absent

\* A run found a .backup holding the configuration file, which the live
\* tree no longer has, and went through apply_update.
C11_Witness ==
    \E p \in active :
        /\ pre[p].backup_dir = StaleBackup
        /\ pre[p].live[pC] = Absent
        /\ version_info.critical_files = { <<"c">> }
        /\ hist[p].applied # "none"
        /\ live[pC] = Absent

\* C12  Backup/restore round-trip: after backup_critical_files returned True
\* and restore_critical_files ran, every file has the content it had and the
\* same paths exist; a listed file that was absent is still absent.
C12_RoundTrip ==
    \A p \in active :
        (pc[p] = "done" /\ hist[p].failed = "none" /\ "backup" \in hist[p].invoked) =>
            live = pre[p].live

\* The round trip ran where the listed configuration file was absent and an
\* earlier .backup held a copy of it.
C12_Witness ==
    \E p \in active :
        /\ pc[p] = "done"
        /\ hist[p].failed = "none"
        /\ "backup" \in hist[p].invoked
        /\ version_info.critical_files = { <<"c">> }
        /\ pre[p].live[pC] = Absent
        /\ pre[p].backup_dir = StaleBackup

\* C13  Version comparison is antisymmetric: compare_versions(A, B) is
\* -compare_versions(B, A) for numeric dot-separated A and B, and 0 when A is B.
C13_Antisymmetric ==
    probe.step \in {"compared", "checked", "notified"} =>
        /\ ~probe.ab.raised /\ ~probe.ba.raised
        /\ probe.ab.value = -probe.ba.value
        /\ probe.a = probe.b => probe.ab.value = 0

\* "1.10" against "1.1": the longer and larger version came first.
C13_Witness ==
    /\ probe.step = "compared"
    /\ probe.a = <<"1", ".", "1", "0">>
    /\ probe.b = <<"1", ".", "1">>
    /\ probe.ab.value = 1
    /\ probe.ba.value = -1

\* The integer parts of a numeric version string.
PartsOf(v) == LET x == split(v, ".") IN [i \in 1..Len(x) |-> int(x[i])]

PartAt(x, i) == IF i <= Len(x) THEN x[i] ELSE 0

\* x is greater than y at the first part where they differ, absent parts
\* counting as 0.
StrictlyGreater(x, y) ==
    \E i \in 1..Max(Len(x), Len(y)) :
        /\ PartAt(x, i) > PartAt(y, i)
        /\ \A j \in 1..(i - 1) : PartAt(x, j) = PartAt(y, j)

\* C14  Update detection: check_for_updates reports an update exactly when
\* the remote tag without its leading 'v' is strictly greater than the current
\* version, part by part, absent parts counting as 0.
C14_UpdateDetection ==
    probe.step \in {"checked", "notified"} =>
        (probe.has_update <=> StrictlyGreater(PartsOf(probe.a), PartsOf(probe.b)))

\* Tag "v10" against current version "1.1": an update, though "10" sorts
\* before "1.1" as text.
C14_Witness ==
    /\ probe.step = "checked"
    /\ probe.prefix = <<"v">>
    /\ probe.a = <<"1", "0">>
    /\ probe.b = <<"1", ".", "1">>
    /\ probe.has_update

\* C15  Additive merge: every file the live tree had before the transaction
\* still exists, at every point of the run and however it ends.
C15_AdditiveMerge ==
    \A p \in active :
        \A q \in Paths : pre[p].live[q] # Absent => live[q] # Absent

\* An archive without the hidden file was merged and the hidden file is
\* still there.
C15_Witness ==
    \E p \in active :
        /\ hist[p].applied = "true"
        /\ hist[p].served = ZipOf(Arc2)
        /\ hist[p].source = "r2"
        /\ pA \in hist[p].copied
        /\ pre[p].live[pH] = 1
        /\ live[pH] = 1

\* The steps run() can take from one phase to the next.
PhaseOrder ==
    ({"idle", "done", "raised"} \X {"confirm", "done", "raised"})
    \cup ({"confirm"} \X {"backup", "done"})
    \cup ({"backup"} \X {"download", "done", "raised"})
    \cup ({"download"} \X {"apply", "done"})
    \cup ({"apply"} \X {"commit", "done", "raised"})
    \cup ({"commit"} \X {"done", "raised"})

\* C16  Backup precedes mutation: run() moves through check, confirmation,
\* backup, download, apply and cleanup in this order only; it enters download,
\* apply or cleanup only with every earlier phase succeeded; and the live tree
\* is written only by apply_update, after the backup and the download.
C16_BackupPrecedesMutation ==
    [][\A p \in active :
         /\ pc'[p] # pc[p] => <<pc[p], pc'[p]>> \in PhaseOrder
         /\ (pc'[p] # pc[p] /\ pc'[p] \in {"download", "apply", "commit"}) =>
                hist'[p].failed = "none"
         /\ "apply" \in hist'[p].invoked => {"backup", "download"} \subseteq hist'[p].invoked
         /\ "download" \in hist'[p].invoked => "backup" \in hist'[p].invoked
         /\ live' # live =>
                /\ pc[p] = "apply"
                /\ {"backup", "download"} \subseteq hist[p].invoked
                /\ hist[p].failed = "none"]_vars

\* A run went through every phase and changed the live tree.
C16_Witness ==
    \E p \in active :
        /\ pc[p] = "done"
        /\ ret[p] = 0
        /\ hist[p].invoked = {"backup", "download", "apply"}
        /\ live # pre[p].live

\* The one top-level directory of a zip, if it has exactly one.
OnlyTop(zip) == CHOOSE t \in Tops : zip.tops[t].dir

HasOneTop(zip) == zip.kind = "ok" /\ Cardinality({t \in Tops : zip.tops[t].dir}) = 1

\* C17  Merge completeness: when apply_update returned True, every file under
\* the top-level directory of the downloaded archive that is neither critical
\* nor under a "." segment is in the project root with the archive's content.
C17_MergeCompleteness ==
    \A p \in active :
        (hist[p].applied = "true" /\ HasOneTop(hist[p].served)) =>
            \A q \in Paths :
                LET content == hist[p].served.tops[OnlyTop(hist[p].served)].files[q]
                IN  (/\ content # Absent
                     /\ Str(q) \notin version_info.critical_files
                     /\ q \notin CriticalPaths
                     /\ ~IsHidden(q)) => live[q] = content

\* C18  No stale-staging leakage: the directory apply_update merges from is a
\* directory of the archive downloaded in the same run, and every file it
\* copies is a file of that archive.
C18_NoStaleStaging ==
    \A p \in active :
        hist[p].source # "none" =>
            /\ hist[p].served.tops[hist[p].source].dir
            /\ \A q \in hist[p].copied :
                   hist[p].served.tops[hist[p].source].files[q] # Absent

\* C19  Notifier agrees with updater: check_updates_on_startup announces an
\* update only when check_for_updates reports one for the same descriptor
\* and release.
C19_NotifierAgrees ==
    probe.step = "notified" => (probe.announced => probe.has_update)

====
